---- MODULE Spec2Model ----
(***************************************************************************)
(* Model of the call-centre voice agent's utterance segmentation and       *)
(* pipeline orchestration: VadWrapper (vad.py), StreamingASR (asr.py),     *)
(* CachedTTSWrapper (tts.py), PipelineManager (pipeline_manager.py) and    *)
(* the WebSocket handler of main.py.                                       *)
(*                                                                         *)
(* Units: audio lengths are bytes of 16-bit mono PCM, times are            *)
(* milliseconds of wall clock (time.time()), speech probabilities are      *)
(* hundredths.  Audio is modelled as runs of constant sample value, so     *)
(* that concatenation, slicing, energy and content hashes are computed on  *)
(* the bytes and not assumed.                                              *)
(***************************************************************************)
EXTENDS Integers, Sequences, FiniteSets, TLC

VARIABLES
    now,              \* wall clock, ms (time.time() * 1000)
    vad,              \* VadWrapper fields
    asr,              \* StreamingASR fields
    tts,              \* CachedTTSWrapper fields
    pm,               \* PipelineManager fields
    processing_lock,  \* PipelineManager._processing_lock: holder or NoTask
    pc,               \* per handler coroutine: where it is suspended
    loc,              \* per handler coroutine: its local variables
    lingering,        \* executor calls still running after their awaiter timed out
    events,           \* messages sent over the WebSocket(s), in order
    hist              \* history of calls and pipeline runs (observation only)

vars == <<now, vad, asr, tts, pm, processing_lock, pc, loc, lingering, events, hist>>

----------------------------------------------------------------------------
(* Bounds of the model *)

NumTasks == 2          \* concurrent WebSocket handler coroutines
MaxChunks == 8         \* audio chunks fed in one behaviour of one connection
MaxSharedChunks == 4   \* audio chunks fed in one behaviour of concurrent connections
MaxCalls == 5          \* calls in the unit specifications
MaxCap == 2            \* largest cache capacity tried

(* Program constants *)

StartTime == 100000            \* the clock at construction; timestamps initialised to 0 lie far in the past
sample_rate == 16000
bytes_per_sample == 2
BytesPerSec == sample_rate * bytes_per_sample
target_chunk_size == 1024      \* VAD sub-frame, bytes
vad_threshold == 25            \* 0.25
max_tail_ms == 150
predictive_threshold == 50     \* 0.5
predictive_floor == 30         \* 0.3
recent_maxlen == 10
predictive_min_samples == 8
predictive_trend_samples == 5
dup_window_ms == 2000          \* 2.0 s
min_time_between_responses == 300
processing_timeout == 15000
max_buffer_size == 48000       \* int(1.5 * 16000 * 2)
keep_bytes == 160000           \* int(5.0 * 16000 * 2)
partial_update_interval == 200
hash_sample_size == 1000       \* samples

None == "None"                 \* an unset string field
NoTime == -1                   \* an unset timestamp (silence_start = None)
NoHash == << [val |-> -1, len |-> 0] >>   \* an unset digest
NoneText == << "None" >>       \* None where a text is expected
NoChunk == [val |-> 0, len |-> 0]
NoTask == 0
Tasks == 1 .. NumTasks

Max(a, b) == IF a >= b THEN a ELSE b
Min(a, b) == IF a <= b THEN a ELSE b

----------------------------------------------------------------------------
(* Audio: a byte string is a sequence of runs [val, len]: len bytes whose  *)
(* 16-bit samples all have the value val.  Adjacent runs of one value are  *)
(* merged, so two byte strings are equal iff their run sequences are.      *)

RECURSIVE BufLen(_)
BufLen(b) == IF b = <<>> THEN 0 ELSE Head(b).len + BufLen(Tail(b))

\* bytearray.extend
Extend(b, c) ==
    IF c.len = 0 THEN b
    ELSE IF b # <<>> /\ b[Len(b)].val = c.val
         THEN [b EXCEPT ![Len(b)].len = @ + c.len]
         ELSE Append(b, c)

\* b[:k]
RECURSIVE Prefix(_, _)
Prefix(b, k) ==
    IF k <= 0 \/ b = <<>> THEN <<>>
    ELSE IF Head(b).len >= k THEN << [val |-> Head(b).val, len |-> k] >>
         ELSE <<Head(b)>> \o Prefix(Tail(b), k - Head(b).len)

\* b[-k:] for 0 < k
RECURSIVE Suffix(_, _)
Suffix(b, k) ==
    IF k <= 0 \/ b = <<>> THEN <<>>
    ELSE IF BufLen(b) <= k THEN b
         ELSE IF BufLen(Tail(b)) >= k THEN Suffix(Tail(b), k)
              ELSE << [val |-> Head(b).val, len |-> k - BufLen(Tail(b))] >> \o Tail(b)

\* sum of value^2 over the samples, counted in blocks of 32 samples (the
\* audio of the model comes in whole blocks; this keeps the sums in range)
energy_block == 64
RECURSIVE SumSquares(_)
SumSquares(b) ==
    IF b = <<>> THEN 0
    ELSE (Head(b).len \div energy_block) * Head(b).val * Head(b).val + SumSquares(Tail(b))

\* np.sqrt(np.mean(audio ** 2)) < silence_threshold (0.001) with
\* audio = int16 / 32768: mean(v^2) < (0.001 * 32768)^2 = 1073.74...; the
\* sample values of the model keep the mean away from the fraction
silence_floor_sq == 1074
IsSilentRms(b) ==
    SumSquares(b) < (BufLen(b) \div energy_block) * silence_floor_sq

\* hashlib digests: equal iff the hashed bytes are equal; the digest of a
\* byte string is represented by the byte string
Digest(b) == b

----------------------------------------------------------------------------
(* VadWrapper (vad.py).  last_speech_time, speech_momentum, _tensor_cache,  *)
(* _audio_buffer and _accumulated_samples are written but never read by    *)
(* any decision and are left out.                                          *)

VadInit ==
    [ end_of_utterance |-> FALSE,
      silence_start |-> NoTime,
      was_speaking |-> FALSE,
      last_speech_result |-> FALSE,
      utterance_processed |-> FALSE,
      recent_probabilities |-> <<>> ]

\* VadWrapper.reset: the probability history is not cleared
VadReset(v) ==
    [ VadInit EXCEPT !.recent_probabilities = v.recent_probabilities ]

\* deque(maxlen=10).append
DequeAppend(q, x) ==
    IF Len(q) >= recent_maxlen THEN Append(Tail(q), x) ELSE Append(q, x)

\* mutant: the edge needs more than the threshold
TailReachedStrict(silence_duration) == silence_duration > max_tail_ms

\* the comparison of the silence timer with the trailing-silence threshold
TailReached(silence_duration) == silence_duration >= max_tail_ms

\* mutant: the edge leaves the detector speaking
EdgeFieldsKeepSpeaking(v) == [v EXCEPT !.end_of_utterance = TRUE]

\* the assignments of the trailing-silence rule, lines 265-266
EdgeFields(v) == [v EXCEPT !.end_of_utterance = TRUE, !.was_speaking = FALSE]

\* VadWrapper._update_speech_state at time t
UpdateSpeechState(v, is_speech, speech_prob, t) ==
    LET v1 == [v EXCEPT !.recent_probabilities = DequeAppend(@, speech_prob)]
    IN  IF is_speech
        THEN IF ~v1.was_speaking
             THEN [v1 EXCEPT !.was_speaking = TRUE,
                             !.end_of_utterance = FALSE,
                             !.utterance_processed = FALSE,
                             !.silence_start = NoTime]
             ELSE v1
        ELSE IF v1.was_speaking /\ ~v1.utterance_processed
             THEN LET start == IF v1.silence_start = NoTime THEN t ELSE v1.silence_start
                      v2 == [v1 EXCEPT !.silence_start = start]
                  IN  IF TailReached(t - start)
                      THEN EdgeFields(v2)
                      ELSE v2
             ELSE v1

\* VadWrapper.is_speech on a chunk of c.len bytes.  p is what the acoustic
\* model answers for the complete 1024-byte sub-frames: the first
\* probability above the threshold, or a probability not above it when no
\* sub-frame exceeds it (a failed model call is skipped like a sub-frame
\* below the threshold).  An incomplete trailing sub-frame is not evaluated.
SpeechDetected(c, p) == (c.len \div target_chunk_size) >= 1 /\ p > vad_threshold

\* the bytes of the chunk in no complete sub-frame: the slice shorter than
\* target_chunk_size that the loop of is_speech skips (line 126)
SkippedBytes(c) == c.len % target_chunk_size

VadIsSpeech(v, c, p, t) ==
    IF c.len = 0 THEN v
    ELSE LET detected == SpeechDetected(c, p)
             v1 == IF detected THEN UpdateSpeechState(v, TRUE, p, t)
                               ELSE UpdateSpeechState(v, FALSE, 0, t)
         IN  [v1 EXCEPT !.last_speech_result = detected]

VadIsSpeechResult(v, c, p) ==
    IF c.len = 0 THEN v.last_speech_result ELSE SpeechDetected(c, p)

\* mutant: a failed model call counts as speech
SubFrameIsSpeechFailOpen(o) == ~o.ok \/ o.prob > vad_threshold

\* one pass of the loop of is_speech on a complete sub-frame.  o is what
\* the model call does: [ok, prob], ok FALSE when it raises (the except of
\* lines 146-148 goes on with the next sub-frame)
SubFrameIsSpeech(o) == o.ok /\ o.prob > vad_threshold

\* the loop of is_speech over the outcomes of the complete sub-frames: it
\* stops at the first sub-frame found to be speech
RECURSIVE ScanSubFrames(_)
ScanSubFrames(outs) ==
    IF outs = <<>> THEN [detected |-> FALSE, prob |-> 0]
    ELSE IF SubFrameIsSpeech(Head(outs))
         THEN [detected |-> TRUE, prob |-> Head(outs).prob]
         ELSE ScanSubFrames(Tail(outs))

\* VadWrapper.is_speech on a chunk of len bytes whose complete sub-frames
\* get the outcomes outs from the model.  [vad, ret, raised]: no exception
\* of the model leaves the loop
IsSpeechFrames(v, len, outs, t) ==
    IF len = 0 THEN [vad |-> v, ret |-> v.last_speech_result, raised |-> FALSE]
    ELSE LET scan == ScanSubFrames(outs)
             v1 == IF scan.detected THEN UpdateSpeechState(v, TRUE, scan.prob, t)
                                    ELSE UpdateSpeechState(v, FALSE, 0, t)
         IN  [vad |-> [v1 EXCEPT !.last_speech_result = scan.detected],
              ret |-> scan.detected, raised |-> FALSE]

\* VadWrapper.mark_utterance_processed
MarkUtteranceProcessed(v) == [v EXCEPT !.utterance_processed = TRUE]

\* VadWrapper.force_end_utterance
ForceEndUtterance(v) ==
    IF v.was_speaking /\ ~v.utterance_processed
    THEN [v EXCEPT !.end_of_utterance = TRUE, !.was_speaking = FALSE,
                   !.utterance_processed = TRUE]
    ELSE v

RECURSIVE SumSeq(_)
SumSeq(q) == IF q = <<>> THEN 0 ELSE Head(q) + SumSeq(Tail(q))

\* mutant: five samples are enough for a prediction
ShouldTriggerEarlyFiveSamples(recent) ==
    /\ Len(recent) >= predictive_trend_samples
    /\ SumSeq(SubSeq(recent, Len(recent) - predictive_trend_samples + 1, Len(recent)))
           < predictive_floor * predictive_trend_samples

\* VadWrapper.should_trigger_early_processing: sum(recent[-5:]) / 5 below
\* the predictive threshold and below 0.3, with at least 8 samples
ShouldTriggerEarlyProcessing(recent) ==
    /\ Len(recent) >= predictive_min_samples
    /\ LET last5 == SubSeq(recent, Len(recent) - predictive_trend_samples + 1, Len(recent))
       IN  /\ SumSeq(last5) < predictive_threshold * predictive_trend_samples
           /\ SumSeq(last5) < predictive_floor * predictive_trend_samples

----------------------------------------------------------------------------
(* StreamingASR (asr.py).  A transcript is the sequence of its words; the  *)
(* empty string is <<>>.  transcription_count only feeds get_stats and is  *)
(* left out.  The texts the transcription model returns are inputs.        *)

NoText == <<>>

AsrInit ==
    [ audio_buffer |-> <<>>,
      last_partial_transcript |-> NoText,
      last_partial_hash |-> NoHash,
      last_partial_time |-> 0,
      last_final_transcript |-> NoText,
      finalized |-> FALSE ]

\* StreamingASR.reset and reset_session
AsrReset(a) == AsrInit

\* duration < self.min_audio_duration (0.1 s)
TooShort(b) == BufLen(b) * 10 < BytesPerSec

\* mutant: the fingerprint covers the whole buffer
AudioHashWhole(b) == Digest(b)

\* StreamingASR._get_audio_hash: md5 of the first min(1000, n) samples
AudioHash(b) == Digest(Prefix(b, hash_sample_size * bytes_per_sample))

\* StreamingASR._should_generate_partial (enable_partial_results is True)
ShouldGeneratePartial(a, t) ==
    /\ ~(t - a.last_partial_time < partial_update_interval)
    /\ ~TooShort(a.audio_buffer)

\* mutant: a finalized session goes on accepting audio
FeedRejectedEmptyOnly(a, c) == c.len = 0

\* not pcm_bytes or self.finalized: the chunk is dropped
FeedRejected(a, c) == c.len = 0 \/ a.finalized

\* StreamingASR.feed_audio at time t; m is the text of the model's partial
\* pass (NoText when it fails or hears nothing).  [asr, ret, called]
AsrFeedAudio(a, c, t, m) ==
    IF FeedRejected(a, c)
    THEN [asr |-> a, ret |-> NoneText, called |-> FALSE]
    ELSE LET a1 == [a EXCEPT !.audio_buffer = Extend(@, c)]
             b == a1.audio_buffer
         IN  IF ~ShouldGeneratePartial(a1, t)
             THEN [asr |-> a1, ret |-> NoneText, called |-> FALSE]
             ELSE IF TooShort(b) \/ IsSilentRms(b)
             THEN [asr |-> a1, ret |-> NoneText, called |-> FALSE]
             ELSE IF AudioHash(b) = a1.last_partial_hash
             THEN [asr |-> a1, ret |-> NoneText, called |-> FALSE]
             ELSE IF m # NoText /\ m # a1.last_partial_transcript
             THEN [asr |-> [a1 EXCEPT !.last_partial_transcript = m,
                                      !.last_partial_hash = AudioHash(b),
                                      !.last_partial_time = t],
                   ret |-> m, called |-> TRUE]
             ELSE [asr |-> a1, ret |-> NoneText, called |-> TRUE]

\* StreamingASR.is_session_active
IsSessionActive(a) == BufLen(a.audio_buffer) > 0 /\ ~a.finalized

\* what finalize returns on the paths that skip the model: the buffer is
\* too short or silent
FinalizeFallback(a) == a.last_partial_transcript

\* StreamingASR.finalize; f is the text of the model's final pass and p the
\* text of the partial pass tried when f is empty.  [asr, ret, passes]
\* where passes counts the final passes of the model
AsrFinalize(a, f, p) ==
    IF a.finalized
    THEN [asr |-> a, ret |-> a.last_final_transcript, passes |-> 0]
    ELSE IF BufLen(a.audio_buffer) = 0
    THEN [asr |-> [a EXCEPT !.finalized = TRUE], ret |-> NoText, passes |-> 0]
    ELSE IF TooShort(a.audio_buffer) \/ IsSilentRms(a.audio_buffer)
    THEN [asr |-> [a EXCEPT !.finalized = TRUE], ret |-> FinalizeFallback(a), passes |-> 0]
    ELSE LET text == IF f # NoText THEN f
                     ELSE IF p # NoText THEN p
                     ELSE a.last_partial_transcript
         IN  [asr |-> [a EXCEPT !.last_final_transcript = text, !.finalized = TRUE],
              ret |-> text, passes |-> 1]

----------------------------------------------------------------------------
(* TTSWrapper and CachedTTSWrapper (tts.py).  A response text is          *)
(* [s, more]: its first 100 characters and the characters after them.     *)
(* Audio is [text, kind] or NoAudio (b"").  response_cache is the dict in  *)
(* insertion order, a sequence of [key, audio].                            *)

Txt(str) == [s |-> str, more |-> ""]
EmptyText == Txt("")
NoAudio == [text |-> EmptyText, kind |-> "empty"]

\* str.strip and str.lower on the strings of the model
Strip(str) ==
    CASE str = " hello " -> "hello"
      [] str = "Hello "  -> "Hello"
      [] str = " "       -> ""
      [] OTHER           -> str

Lower(str) ==
    CASE str = "Hello"   -> "hello"
      [] str = "Hello "  -> "hello "
      [] str = "Bye"     -> "bye"
      [] str = "Thanks"  -> "thanks"
      [] OTHER           -> str

\* not text or not text.strip()
IsBlank(text) == Strip(text.s) = "" /\ Strip(text.more) = ""

\* text[:100].strip().lower(), the argument of md5
CacheKey(text) == Digest(Lower(Strip(text.s)))

\* TTSWrapper.synthesize; o is the outcome of the detected backend: "ok",
\* "fail" (it raises or reports an error: the placeholder is returned) or
\* "empty" (it writes an empty file)
Synthesize(text, o) ==
    IF IsBlank(text) THEN NoAudio
    ELSE CASE o = "ok"    -> [text |-> text, kind |-> "synth"]
           [] o = "fail"  -> [text |-> text, kind |-> "placeholder"]
           [] o = "empty" -> NoAudio

TtsInit(cap) ==
    [ response_cache |-> <<>>, max_cache_size |-> cap, cache_hits |-> 0, cache_misses |-> 0 ]

CacheKeys(c) == { c.response_cache[i].key : i \in 1 .. Len(c.response_cache) }

CacheGet(c, k) ==
    LET i == CHOOSE j \in 1 .. Len(c.response_cache) : c.response_cache[j].key = k
    IN  c.response_cache[i].audio

\* mutant: a full cache drops its newest entry
CacheInsertDropNewest(cache, cap, k, audio) ==
    IF Len(cache) < cap
    THEN Append(cache, [key |-> k, audio |-> audio])
    ELSE Append(SubSeq(cache, 1, Len(cache) - 1), [key |-> k, audio |-> audio])

\* the insertion of a new key, lines 424-432 (max_cache_size >= 1)
CacheInsert(cache, cap, k, audio) ==
    IF Len(cache) < cap
    THEN Append(cache, [key |-> k, audio |-> audio])
    ELSE Append(Tail(cache), [key |-> k, audio |-> audio])

\* CachedTTSWrapper.synthesize_with_cache.  [tts, ret]
SynthesizeWithCache(c, text, o) ==
    IF IsBlank(text) THEN [tts |-> c, ret |-> NoAudio]
    ELSE LET k == CacheKey(text)
         IN  IF k \in CacheKeys(c)
             THEN [tts |-> [c EXCEPT !.cache_hits = @ + 1], ret |-> CacheGet(c, k)]
             ELSE LET audio == Synthesize(text, o)
                  IN  [tts |-> [c EXCEPT !.cache_misses = @ + 1,
                                         !.response_cache =
                                             CacheInsert(@, c.max_cache_size, k, audio)],
                       ret |-> audio]

----------------------------------------------------------------------------
(* PipelineManager (pipeline_manager.py): pure helpers                     *)

pipeline_cache_size == 100

PmInit(ultra, parallel) ==
    [ state |-> "idle",
      buffer |-> <<>>,
      pending_text |-> NoneText,
      last_processed_hash |-> NoHash,
      processing_attempts |-> 0,
      is_processing |-> FALSE,
      last_processed_transcript |-> NoText,
      last_processed_time |-> 0,
      ultra_fast_mode |-> ultra,
      enable_parallel_processing |-> parallel,
      last_processed_utterance_hash |-> NoHash,
      last_processed_utterance_time |-> 0,
      total_chunks |-> 0,
      errors |-> 0 ]

\* _get_buffer_duration() < 0.3
BelowMinimumDuration(b) == BufLen(b) * 10 < 3 * BytesPerSec

\* buffer_duration >= 1.5, the floor of the predictive trigger
AtPredictiveFloor(b) == BufLen(b) * 10 >= 15 * BytesPerSec

\* buffer_duration >= 5.0, the ceiling of the standard path
AtDurationCeiling(b) == BufLen(b) >= 5 * BytesPerSec

\* _manage_buffer_size(new_chunk_size)
ManageBufferSize(b, new_chunk_size) ==
    IF BufLen(b) + new_chunk_size > max_buffer_size
    THEN IF BufLen(b) > keep_bytes THEN Suffix(b, keep_bytes) ELSE <<>>
    ELSE b

\* mutant: the comparison with the recency window is turned around
WithinDupWindowInverted(p, t) == t - p.last_processed_utterance_time > dup_window_ms

\* time_since_last < 2.0 in _is_duplicate_utterance
WithinDupWindow(p, t) == t - p.last_processed_utterance_time < dup_window_ms

\* _is_duplicate_utterance(self._buffer) at time t
IsDuplicateUtterance(p, b, t) ==
    /\ BufLen(b) > 0
    /\ Digest(b) = p.last_processed_utterance_hash
    /\ WithinDupWindow(p, t)

\* the content check of _should_process_utterance, lines 223-228
IsDuplicateContent(p, b) == p.last_processed_hash = Digest(b)

\* _should_process_utterance: [ok, reason, vad]; it acknowledges the edge
ShouldProcessUtterance(p, v) ==
    IF p.is_processing THEN [ok |-> FALSE, reason |-> "already_processing", vad |-> v]
    ELSE IF BelowMinimumDuration(p.buffer)
    THEN [ok |-> FALSE, reason |-> "insufficient_audio", vad |-> v]
    ELSE IF IsDuplicateContent(p, p.buffer)
    THEN [ok |-> FALSE, reason |-> "duplicate_content", vad |-> v]
    ELSE IF v.end_of_utterance
    THEN [ok |-> TRUE, reason |-> "vad_end_of_utterance", vad |-> MarkUtteranceProcessed(v)]
    ELSE IF AtDurationCeiling(p.buffer)
    THEN [ok |-> TRUE, reason |-> "duration_threshold", vad |-> v]
    ELSE [ok |-> FALSE, reason |-> "waiting", vad |-> v]

\* re.sub(r'[^\w\s]', '', word.lower()) on the words of the model
CleanWord(w) ==
    CASE w = "Return"  -> "return"
      [] w = "policy?" -> "policy"
      [] w = "Hours"   -> "hours"
      [] w = "?"       -> ""
      [] OTHER         -> w

\* clean_text: the set of the cleaned, non-empty words
CleanText(text) == { CleanWord(text[i]) : i \in 1 .. Len(text) } \ {""}

\* _calculate_similarity(text1, text2) > 0.9
SimilarityAbove90(text1, text2) ==
    LET words1 == CleanText(text1)
        words2 == CleanText(text2)
    IN  IF words1 = {} /\ words2 = {} THEN TRUE
        ELSE IF words1 = {} \/ words2 = {} THEN FALSE
        ELSE 10 * Cardinality(words1 \cap words2) > 9 * Cardinality(words1 \cup words2)

\* mutant: only the exact match counts as a duplicate
IsDuplicateTranscriptExactOnly(p, transcript, t) ==
    /\ p.last_processed_transcript # <<>>
    /\ transcript = p.last_processed_transcript
    /\ t - p.last_processed_time < min_time_between_responses

\* _is_duplicate_transcript(transcript) at time t
IsDuplicateTranscript(p, transcript, t) ==
    IF p.last_processed_transcript = NoText THEN FALSE
    ELSE \/ /\ transcript = p.last_processed_transcript
            /\ t - p.last_processed_time < min_time_between_responses
         \/ /\ SimilarityAbove90(transcript, p.last_processed_transcript)
            /\ t - p.last_processed_time < min_time_between_responses

\* mutant: the cleanup leaves the in-flight flag as it is
ResetUtteranceFieldsKeepFlag(p) ==
    [p EXCEPT !.buffer = <<>>, !.pending_text = NoneText, !.processing_attempts = 0]

\* the PipelineManager fields _reset_utterance_state assigns
ResetUtteranceFields(p) ==
    [p EXCEPT !.buffer = <<>>, !.pending_text = NoneText,
              !.processing_attempts = 0, !.is_processing = FALSE]

\* mutant: the cleanup leaves the detector as it is
KeepVad(v) == v

\* what _reset_utterance_state does to the detector: self.vad.reset()
ResetUtteranceVad(v) == VadReset(v)

\* what _reset_utterance_state does to the transcriber: self.asr.reset_session()
ResetUtteranceAsr(a) == AsrReset(a)

----------------------------------------------------------------------------
(* State shared by the specifications *)

LocInit ==
    [ deadline |-> 0,            \* when asyncio.timeout(processing_timeout) fires
      transcript |-> NoText,     \* transcript of _process_complete_utterance*
      finalized_at |-> 0,        \* when the transcript was finalized
      response |-> EmptyText ]   \* response_text

\* the record kept of the start of a pipeline run
NoRun == [bytes |-> NoHash, at |-> 0, buflen |-> 0, trigger |-> None]

\* the record kept of the end of a pipeline run: the transcript it answered
\* (NoText when it returned no result), when it returned and how it ended
NoDone == [transcript |-> NoText, at |-> 0, outcome |-> None]

HistInit ==
    [ ticks |-> 0,            \* clock ticks taken
      calls |-> 0,            \* calls made in a unit specification
      tail_obs |-> {},        \* VAD: <<silence elapsed, edge set>> of each timed silence observation
      quiet_since |-> NoTime, \* VAD: when the silence observed without interruption began
      unacked_edges |-> 0,    \* VAD: edges risen since the last mark_utterance_processed or reset
      skipped_bytes |-> 0,    \* VAD: bytes fed in no evaluated sub-frame, counted up to one sub-frame
      early |-> FALSE,        \* VAD: what should_trigger_early_processing last returned
      frame_obs |-> [len |-> 0, outs |-> <<>>, ret |-> FALSE, raised |-> FALSE],
                              \* VAD: the last is_speech call with its sub-frame outcomes
      fin_rets |-> <<>>,      \* ASR: what each finalize() returned since the last reset
      final_passes |-> 0,     \* ASR: final passes of the model since the last reset
      partial_after |-> FALSE,\* ASR: a partial was emitted in this session
      inserted |-> <<>>,      \* cache: the keys in the order they were inserted
      hit_seen |-> FALSE,     \* cache: a call was served from the cache
      last_call |-> [op |-> None, ret |-> NoneText],  \* ASR: the last call and what it returned
      dup_obs |-> [seen |-> FALSE, transcript |-> <<>>, prev |-> <<>>, elapsed |-> 0,
                   result |-> FALSE],  \* the last call of _is_duplicate_transcript
      pauses |-> 0,           \* pauses of the stream
      resets |-> 0,           \* disconnects and reset_stream_state calls
      run |-> NoRun,          \* the start of the most recent run (bytes forgotten at a reset)
      done |-> NoDone,        \* the end of the most recent run
      dup_rejected |-> FALSE, \* a trigger was rejected as a duplicate since the last run started or reset
      feeders |-> {},         \* the connections whose audio is in the orchestrator's buffer
      edge_runs |-> 0 ]       \* runs started on the utterance-ended edge since it last rose

BaseInit ==
    /\ now = StartTime
    /\ vad = VadInit
    /\ asr = AsrInit
    /\ processing_lock = NoTask
    /\ pc = [t \in Tasks |-> "idle"]
    /\ loc = [t \in Tasks |-> LocInit]
    /\ lingering = {}
    /\ events = <<>>
    /\ hist = HistInit

----------------------------------------------------------------------------
(* SpecVad: the detector alone, driven by observations and the clock *)

MaxVadTicks == 4
MaxVadCalls == 6       \* is_speech calls in one behaviour of SpecVad
VadTickSteps == {1, max_tail_ms - 1}
Probs == {10, 90}
SpeechFrame == [val |-> 300, len |-> 1024]
SilenceFrame == [val |-> 0, len |-> 1024]
ShortFrame == [val |-> 300, len |-> 512]
VadChunks == {SpeechFrame, ShortFrame}

InitVad == BaseInit /\ tts = TtsInit(pipeline_cache_size) /\ pm = PmInit(TRUE, TRUE)

VadTick ==
    \E d \in VadTickSteps :
        /\ hist.ticks < MaxVadTicks
        /\ now' = now + d
        /\ hist' = [hist EXCEPT !.ticks = @ + 1]
        /\ UNCHANGED <<vad, asr, tts, pm, processing_lock, pc, loc, lingering, events>>

\* one is_speech call; a silence observation made while speaking with the
\* edge not consumed is recorded with the time elapsed since silence_start
VadObserve ==
    \E c \in VadChunks, p \in Probs :
        /\ hist.calls < MaxVadCalls
        /\ vad' = VadIsSpeech(vad, c, p, now)
        /\ hist' = [hist EXCEPT
                !.calls = @ + 1,
                !.unacked_edges = IF ~vad.end_of_utterance /\ vad'.end_of_utterance
                                  THEN @ + 1 ELSE @,
                !.skipped_bytes = Min(@ + SkippedBytes(c), target_chunk_size),
                !.quiet_since = IF SpeechDetected(c, p) THEN NoTime
                                ELSE IF @ = NoTime THEN now ELSE @,
                !.tail_obs =
                    IF ~SpeechDetected(c, p) /\ vad.was_speaking /\ ~vad.utterance_processed
                    THEN @ \cup { << now - (IF vad.silence_start = NoTime THEN now
                                            ELSE vad.silence_start),
                                     vad'.end_of_utterance /\ ~vad'.was_speaking >> }
                    ELSE @ ]
        /\ UNCHANGED <<now, asr, tts, pm, processing_lock, pc, loc, lingering, events>>

VadMark ==
    /\ vad.end_of_utterance /\ ~vad.utterance_processed
    /\ vad' = MarkUtteranceProcessed(vad)
    /\ hist' = [hist EXCEPT !.unacked_edges = 0]
    /\ UNCHANGED <<now, asr, tts, pm, processing_lock, pc, loc, lingering, events>>

VadForce ==
    /\ vad' = ForceEndUtterance(vad)
    /\ vad' # vad
    /\ hist' = [hist EXCEPT !.unacked_edges = 0]
    /\ UNCHANGED <<now, asr, tts, pm, processing_lock, pc, loc, lingering, events>>

VadResetCall ==
    /\ vad' = VadReset(vad)
    /\ vad' # vad
    /\ hist' = [hist EXCEPT !.unacked_edges = 0]
    /\ UNCHANGED <<now, asr, tts, pm, processing_lock, pc, loc, lingering, events>>

NextVad == VadTick \/ VadObserve \/ VadMark \/ VadForce \/ VadResetCall

SpecVad == InitVad /\ [][NextVad]_vars

----------------------------------------------------------------------------
(* SpecFrames: the detector fed with chunks of several sub-frames, whose    *)
(* model calls answer or fail one by one                                    *)

MaxFrameCalls == 4     \* is_speech calls in one behaviour of SpecFrames
FrameChunks == {ShortFrame, SpeechFrame, [val |-> 300, len |-> 2048]}
SubFrameOutcomes ==
    { [ok |-> TRUE, prob |-> 10], [ok |-> TRUE, prob |-> 90], [ok |-> FALSE, prob |-> 0] }

VadObserveFrames ==
    \E c \in FrameChunks :
        \E outs \in [1 .. (c.len \div target_chunk_size) -> SubFrameOutcomes] :
            LET r == IsSpeechFrames(vad, c.len, outs, now)
            IN  /\ hist.calls < MaxFrameCalls
                /\ vad' = r.vad
                /\ hist' = [hist EXCEPT
                       !.calls = @ + 1,
                       !.frame_obs = [len |-> c.len, outs |-> outs,
                                      ret |-> r.ret, raised |-> r.raised]]
                /\ UNCHANGED <<now, asr, tts, pm, processing_lock, pc, loc, lingering, events>>

NextFrames == VadTick \/ VadObserveFrames \/ VadResetCall

SpecFrames == InitVad /\ [][NextFrames]_vars

----------------------------------------------------------------------------
(* SpecPredict: a stream of frames, the orchestrator asking the detector   *)
(* for an early trigger after each of them                                 *)

MaxPredictCalls == 11  \* frames in one behaviour of SpecPredict
PredictProbs == {10, 60, 90}

\* is_speech on a frame, then should_trigger_early_processing on the
\* detector's probability history
VadPredict ==
    \E p \in PredictProbs :
        /\ hist.calls < MaxPredictCalls
        /\ vad' = VadIsSpeech(vad, SpeechFrame, p, now)
        /\ hist' = [hist EXCEPT
               !.calls = @ + 1,
               !.early = ShouldTriggerEarlyProcessing(vad'.recent_probabilities)]
        /\ UNCHANGED <<now, asr, tts, pm, processing_lock, pc, loc, lingering, events>>

NextPredict == VadPredict

SpecPredict == InitVad /\ [][NextPredict]_vars

\* C7: while the detector is speaking and the edge is not consumed, a
\* silence observation sets end_of_utterance (and marks speaking false) iff
\* the time elapsed since silence_start is at least max_tail_ms: exactly
\* max_tail_ms sets the edge, one millisecond less does not.
C7_TailBoundary ==
    \A o \in hist.tail_obs : o[2] <=> (o[1] >= max_tail_ms)

\* both sides of the boundary were observed
C7_Witness ==
    /\ << max_tail_ms, TRUE >> \in hist.tail_obs
    /\ << max_tail_ms - 1, FALSE >> \in hist.tail_obs

----------------------------------------------------------------------------
(* SpecAsr: the transcriber alone *)

MaxAsrTicks == 2
FaintTenth == [val |-> 40, len |-> 3200]     \* 0.1 s just above the silence floor
ZeroTenth == [val |-> 0, len |-> 3200]       \* 0.1 s of digital silence
LoudTenth == [val |-> 300, len |-> 3200]     \* 0.1 s of clear signal
AsrChunks == {FaintTenth, ZeroTenth, LoudTenth, SpeechFrame}
TextA == << "Return", "policy?" >>
TextB == << "return", "policy" >>
TextC == << "Hours" >>
ModelTexts == {NoText, TextA, TextC}

InitAsr == BaseInit /\ tts = TtsInit(pipeline_cache_size) /\ pm = PmInit(TRUE, TRUE)

AsrTick ==
    /\ hist.ticks < MaxAsrTicks
    /\ now' = now + partial_update_interval
    /\ hist' = [hist EXCEPT !.ticks = @ + 1]
    /\ UNCHANGED <<vad, asr, tts, pm, processing_lock, pc, loc, lingering, events>>

AsrFeed ==
    \E c \in AsrChunks, m \in ModelTexts :
        LET r == AsrFeedAudio(asr, c, now, m)
        IN  /\ hist.calls < MaxCalls
            /\ asr' = r.asr
            /\ hist' = [hist EXCEPT !.calls = @ + 1,
                                    !.partial_after = @ \/ r.ret # NoneText,
                                    !.last_call = [op |-> "feed", ret |-> r.ret]]
            /\ UNCHANGED <<now, vad, tts, pm, processing_lock, pc, loc, lingering, events>>

AsrFinalizeCall ==
    \E f \in ModelTexts, p \in ModelTexts :
        LET r == AsrFinalize(asr, f, p)
        IN  /\ hist.calls < MaxCalls
            /\ asr' = r.asr
            /\ hist' = [hist EXCEPT !.calls = @ + 1,
                                    !.fin_rets = Append(@, r.ret),
                                    !.final_passes = @ + r.passes,
                                    !.last_call = [op |-> "finalize", ret |-> r.ret]]
            /\ UNCHANGED <<now, vad, tts, pm, processing_lock, pc, loc, lingering, events>>

AsrResetCall ==
    /\ hist.calls < MaxCalls
    /\ asr' = AsrReset(asr)
    /\ hist' = [hist EXCEPT !.calls = @ + 1, !.fin_rets = <<>>, !.final_passes = 0,
                            !.partial_after = FALSE,
                            !.last_call = [op |-> "reset", ret |-> NoneText]]
    /\ UNCHANGED <<now, vad, tts, pm, processing_lock, pc, loc, lingering, events>>

NextAsr == AsrTick \/ AsrFeed \/ AsrFinalizeCall \/ AsrResetCall

SpecAsr == InitAsr /\ [][NextAsr]_vars

\* C5: two consecutive calls of finalize() without a reset in between
\* return the same text, and the model runs its final pass only in the
\* first of them.
C5_FinalizeIdempotent ==
    /\ \A i \in 1 .. Len(hist.fin_rets) : hist.fin_rets[i] = hist.fin_rets[1]
    /\ hist.final_passes <= 1

----------------------------------------------------------------------------
(* SpecCache: sequential calls of synthesize_with_cache on one cache *)

\* the last text is longer than 100 characters and begins as Txt("Hours") does
CacheTexts ==
    { Txt("Hello"), Txt(" hello "), Txt("Bye"), Txt("Thanks"), Txt("Hours"), Txt(" "),
      [s |-> "Hours", more |-> " today"] }
BackendOutcomes == {"ok", "fail", "empty"}

InitCache ==
    /\ BaseInit
    /\ pm = PmInit(TRUE, TRUE)
    /\ \E cap \in 1 .. MaxCap : tts = TtsInit(cap)

CacheCall ==
    \E text \in CacheTexts, o \in BackendOutcomes :
        LET r == SynthesizeWithCache(tts, text, o)
            miss == r.tts.cache_misses > tts.cache_misses
            hit == r.tts.cache_hits > tts.cache_hits
        IN  /\ hist.calls < MaxCalls
            /\ tts' = r.tts
            /\ hist' = [hist EXCEPT !.calls = @ + 1,
                                    !.inserted = IF miss THEN Append(@, CacheKey(text)) ELSE @,
                                    !.hit_seen = @ \/ hit]
            /\ UNCHANGED <<now, vad, asr, pm, processing_lock, pc, loc, lingering, events>>

\* CachedTTSWrapper.clear_cache
CacheClear ==
    /\ tts.response_cache # <<>>
    /\ tts' = [tts EXCEPT !.response_cache = <<>>]
    /\ hist' = [hist EXCEPT !.inserted = <<>>]
    /\ UNCHANGED <<now, vad, asr, pm, processing_lock, pc, loc, lingering, events>>

NextCache == CacheCall \/ CacheClear

SpecCache == InitCache /\ [][NextCache]_vars

\* SpecThreads: synthesize_with_cache run by the threads of the default
\* executor, which take no lock: the call of a pipeline run, a call a
\* timed-out run left behind, a call of text_to_speech.  Thread t is "idle",
\* in self.synthesize ("tts") after its miss was counted, or past the test
\* of line 424 and about to store ("append") or to evict and store
\* ("evict").  loc[t].response is its text.  hist.calls counts the calls
\* that returned for a non-blank text.

\* lines 404-418: the blank test, the lookup and the counters
CacheLookup ==
    \E t \in Tasks, text \in CacheTexts :
        /\ pc[t] = "idle"
        /\ tts.cache_hits + tts.cache_misses < MaxCalls
        /\ ~IsBlank(text)
        /\ IF CacheKey(text) \in CacheKeys(tts)
           THEN /\ tts' = [tts EXCEPT !.cache_hits = @ + 1]
                /\ hist' = [hist EXCEPT !.calls = @ + 1, !.hit_seen = TRUE]
                /\ UNCHANGED <<pc, loc>>
           ELSE /\ tts' = [tts EXCEPT !.cache_misses = @ + 1]
                /\ pc' = [pc EXCEPT ![t] = "tts"]
                /\ loc' = [loc EXCEPT ![t].response = text]
                /\ UNCHANGED hist
        /\ UNCHANGED <<now, vad, asr, pm, processing_lock, lingering, events>>

\* self.synthesize returns and line 424 compares the size with the capacity
CacheSized ==
    \E t \in Tasks :
        /\ pc[t] = "tts"
        /\ pc' = [pc EXCEPT ![t] = IF Len(tts.response_cache) < tts.max_cache_size
                                   THEN "append" ELSE "evict"]
        /\ UNCHANGED <<now, vad, asr, tts, pm, processing_lock, loc, lingering, events, hist>>

\* lines 425 and 429-431: the store into the dict (a key already present
\* keeps its place), after the deletion of the oldest key on the evict
\* branch; then the return
CacheStore ==
    \E t \in Tasks, o \in BackendOutcomes :
        LET k == CacheKey(loc[t].response)
            entry == [key |-> k, audio |-> Synthesize(loc[t].response, o)]
            before == IF pc[t] = "evict" THEN Tail(tts.response_cache) ELSE tts.response_cache
            after == IF \E i \in 1 .. Len(before) : before[i].key = k
                     THEN [i \in 1 .. Len(before) |->
                              IF before[i].key = k THEN entry ELSE before[i]]
                     ELSE Append(before, entry)
        IN  /\ pc[t] \in {"append", "evict"}
            /\ pc[t] = "evict" => tts.response_cache # <<>>
            /\ tts' = [tts EXCEPT !.response_cache = after]
            /\ pc' = [pc EXCEPT ![t] = "idle"]
            /\ loc' = [loc EXCEPT ![t] = LocInit]
            /\ hist' = [hist EXCEPT !.calls = @ + 1]
            /\ UNCHANGED <<now, vad, asr, pm, processing_lock, lingering, events>>

NextThreads == CacheLookup \/ CacheSized \/ CacheStore

SpecThreads == InitCache /\ [][NextThreads]_vars

\* the keys of the cache in dict order
CacheOrder == [i \in 1 .. Len(tts.response_cache) |-> tts.response_cache[i].key]

\* C10: the cache never holds more than its capacity C, and it holds
\* exactly the most recently inserted keys, in insertion order (all of
\* them while they fit, the last C of them once more than C were
\* inserted); hits do not take part in the order.
C10_FifoEviction ==
    LET n == Len(hist.inserted)
        c == tts.max_cache_size
    IN  /\ Len(tts.response_cache) <= c
        /\ CacheOrder = SubSeq(hist.inserted, Max(1, n - c + 1), n)

\* more keys were inserted than fit, after a hit
C10_Witness ==
    /\ Len(hist.inserted) > tts.max_cache_size
    /\ tts.max_cache_size = MaxCap
    /\ hist.hit_seen

----------------------------------------------------------------------------
(* Spec: one PipelineManager (the module-level pipeline of main.py) fed by  *)
(* the WebSocket handler coroutines.  A coroutine is "idle" between two    *)
(* chunks, "waiting" for _processing_lock, in one of the Stages while it   *)
(* awaits the executor call of that stage, or "closing" once its handler   *)
(* left the receive loop and is about to call pipeline.reset().  Between   *)
(* two suspension points a coroutine runs without interleaving.  events   *)
(* holds the messages sent since the stream buffer last began to fill.    *)

MaxTicks == 2          \* clock ticks in one behaviour
MaxResets == 1         \* disconnects and reset_stream_state calls in one behaviour
MaxLingering == 1      \* executor calls left running by timeouts at one time
MaxPauses == 1         \* pauses of the stream in one behaviour

Stages == {"finalize", "respond", "tts"}
TickSteps == {max_tail_ms}
Burst == [val |-> 300, len |-> 4800]         \* 0.15 s of clear signal
Inputs == { << Burst, 90 >>, << SilenceFrame, 10 >> }
PartialTexts == {NoText, TextC}
FinalTexts == {NoText, TextA}
ResponseTexts == {EmptyText, Txt("Hello")}

\* mutant: the handler enters without the lock
LockIgnored == TRUE

\* async with self._processing_lock can be entered
LockFree == processing_lock = NoTask

\* a message sent with websocket.send_text
Event(type, t, transcript, text, audio) ==
    [ type |-> type, to |-> t, transcript |-> transcript, text |-> text, audio |-> audio ]

\* mutant: the partial pass is requested for every chunk that does not trigger
HandlePartialAnyChunk(p, a, c, t, m, is_speech) ==
    LET r == AsrFeedAudio(a, c, t, m)
    IN  IF r.ret # NoneText /\ r.ret # NoText /\ r.ret # p.pending_text
        THEN [pm |-> [p EXCEPT !.pending_text = r.ret], asr |-> r.asr, sent |-> r.ret]
        ELSE [pm |-> p, asr |-> r.asr, sent |-> NoneText]

\* _handle_partial_transcription and _handle_ultra_fast_partial, called when
\* is_speech: [pm, asr, sent] where sent is the partial sent to the client
HandlePartial(p, a, c, t, m, is_speech) ==
    IF ~is_speech THEN [pm |-> p, asr |-> a, sent |-> NoneText]
    ELSE LET r == AsrFeedAudio(a, c, t, m)
         IN  IF r.ret # NoneText /\ r.ret # NoText /\ r.ret # p.pending_text
             THEN [pm |-> [p EXCEPT !.pending_text = r.ret], asr |-> r.asr, sent |-> r.ret]
             ELSE [pm |-> p, asr |-> r.asr, sent |-> NoneText]

\* _process_audio_chunk up to the call of _process_complete_utterance:
\* [pm, vad, asr, sent, start, trigger]
ProcessAudioChunk(p, v, a, c, prob, m, t) ==
    LET p1 == [p EXCEPT !.total_chunks = @ + 1,
                        !.buffer = Extend(ManageBufferSize(@, c.len), c),
                        !.state = IF @ = "idle" THEN "listening" ELSE @]
        v1 == VadIsSpeech(v, c, prob, t)
        sp == ShouldProcessUtterance(p1, v1)
    IN  IF sp.ok
        THEN [pm |-> [p1 EXCEPT !.state = "processing",
                                !.is_processing = TRUE,
                                !.processing_attempts = @ + 1,
                                !.last_processed_hash = Digest(p1.buffer)],
              vad |-> MarkUtteranceProcessed(sp.vad), asr |-> a, sent |-> NoneText,
              start |-> TRUE, trigger |-> sp.reason]
        ELSE LET h == HandlePartial(p1, a, c, t, m, VadIsSpeechResult(v, c, prob))
             IN  [pm |-> h.pm, vad |-> sp.vad, asr |-> h.asr, sent |-> h.sent,
                  start |-> FALSE, trigger |-> sp.reason]

\* _process_audio_chunk_ultra_fast up to the first await of
\* _background_process_utterance: [pm, vad, asr, sent, start, trigger]
ProcessAudioChunkUltraFast(p, v, a, c, prob, m, t) ==
    LET p0 == [p EXCEPT !.total_chunks = @ + 1]
    IN  IF p.is_processing
        THEN [pm |-> p0, vad |-> v, asr |-> a, sent |-> NoneText,
              start |-> FALSE, trigger |-> "already_processing"]
        ELSE
        LET p1 == [p0 EXCEPT !.buffer = Extend(ManageBufferSize(@, c.len), c),
                             !.state = IF @ = "idle" THEN "listening" ELSE @]
            v1 == VadIsSpeech(v, c, prob, t)
            predictive == /\ AtPredictiveFloor(p1.buffer)
                          /\ ShouldTriggerEarlyProcessing(v1.recent_probabilities)
                          /\ ~p1.is_processing
            traditional == v1.end_of_utterance /\ ~p1.is_processing
        IN  IF predictive \/ traditional
            THEN IF IsDuplicateUtterance(p1, p1.buffer, t)
                 THEN [pm |-> p1, vad |-> v1, asr |-> a, sent |-> NoneText,
                       start |-> FALSE, trigger |-> "duplicate_utterance"]
                 ELSE [pm |-> [p1 EXCEPT !.is_processing = TRUE,
                                         !.last_processed_utterance_hash = Digest(p1.buffer),
                                         !.last_processed_utterance_time = t],
                       vad |-> v1, asr |-> a, sent |-> NoneText, start |-> TRUE,
                       trigger |-> IF predictive THEN "predictive" ELSE "traditional"]
            ELSE LET h == HandlePartial(p1, a, c, t, m, VadIsSpeechResult(v, c, prob))
                 IN  [pm |-> h.pm, vad |-> v1, asr |-> h.asr, sent |-> h.sent,
                      start |-> FALSE, trigger |-> "waiting"]

\* what a call of feed_audio_with_transcription by coroutine t leaves
\* behind, r being the result of the chunk processing of its mode
ChunkEffects(t, c, r) ==
    LET rose == ~vad.end_of_utterance /\ r.vad.end_of_utterance
        on_edge == r.vad.end_of_utterance
        appended == r.pm.buffer # pm.buffer
        kept == BufLen(r.pm.buffer) > c.len
        feeders == IF appended
                   THEN (IF kept THEN hist.feeders ELSE {}) \cup {t}
                   ELSE hist.feeders
        duplicate == \/ r.trigger = "duplicate_utterance"
                     \/ r.trigger = "duplicate_content"
                        /\ (on_edge \/ AtDurationCeiling(r.pm.buffer))
    IN  /\ pm' = r.pm
        /\ vad' = r.vad
        /\ asr' = r.asr
        /\ events' = LET sent_so_far == IF pm.buffer = <<>> THEN <<>> ELSE events
                     IN  IF r.sent # NoneText
                         THEN Append(sent_so_far,
                                     Event("transcript_partial", t, r.sent, EmptyText, NoAudio))
                         ELSE sent_so_far
        /\ processing_lock' = IF r.start THEN t ELSE NoTask
        /\ pc' = [pc EXCEPT ![t] = IF r.start THEN "finalize" ELSE "idle"]
        /\ loc' = [loc EXCEPT ![t] =
                       IF r.start THEN [LocInit EXCEPT !.deadline = now + processing_timeout]
                       ELSE LocInit]
        /\ hist' = IF r.start
                   THEN [hist EXCEPT
                            !.run = [bytes |-> Digest(r.pm.buffer),
                                     at |-> now,
                                     buflen |-> BufLen(r.pm.buffer),
                                     trigger |-> r.trigger],
                            !.dup_rejected = FALSE,
                            !.feeders = feeders,
                            !.edge_runs = (IF rose THEN 0 ELSE @) + (IF on_edge THEN 1 ELSE 0)]
                   ELSE [hist EXCEPT
                            !.dup_rejected = @ \/ duplicate,
                            !.feeders = feeders,
                            !.edge_runs = IF rose THEN 0 ELSE @]
        /\ UNCHANGED <<now, tts, lingering>>

\* feed_audio_with_transcription from the acquisition of the lock to the
\* first executor call of a run, or to its return when no run is triggered
HandleChunk(t, c, prob, m) ==
    ChunkEffects(t, c, IF pm.ultra_fast_mode
                       THEN ProcessAudioChunkUltraFast(pm, vad, asr, c, prob, m, now)
                       ELSE ProcessAudioChunk(pm, vad, asr, c, prob, m, now))

\* the finally of _background_process_utterance
BackgroundFinally(p) == [p EXCEPT !.is_processing = FALSE]

\* not transcript or not transcript.strip()
EmptyTranscript(transcript) == CleanText(transcript) = {} /\ Len(transcript) = 0

\* mutant: the deadline is not caught by the run and reaches the caller
PropagatesTimeout(p, outcome) == outcome \in {"exception", "timeout"} /\ ~p.ultra_fast_mode

\* what the caller of the run does with an exception a stage raised:
\* _background_process_utterance swallows it, _process_audio_chunk counts
\* it, enters Error and raises to the handler
Propagates(p, outcome) == outcome = "exception" /\ ~p.ultra_fast_mode

\* the end of a run in coroutine t: the finally of
\* _process_complete_utterance(_parallel), the code of the caller after
\* it, the return (or raise) of feed_audio_with_transcription and the send
\* of main.py.  a and c are the transcriber and the synthesizer as the
\* stage left them, t2 is the time.
EndRun(t, outcome, a, c, t2, replies, text, audio) ==
    LET p1 == ResetUtteranceFields(pm)
        p2 == IF pm.ultra_fast_mode THEN BackgroundFinally(p1)
              ELSE IF Propagates(pm, outcome)
                   THEN [p1 EXCEPT !.state = "error", !.errors = @ + 1]
                   ELSE [p1 EXCEPT !.state = "idle"]
    IN  /\ pm' = p2
        /\ asr' = ResetUtteranceAsr(a)
        /\ vad' = ResetUtteranceVad(vad)
        /\ tts' = c
        /\ now' = t2
        /\ processing_lock' = NoTask
        /\ pc' = [pc EXCEPT ![t] = IF Propagates(pm, outcome) THEN "closing" ELSE "idle"]
        /\ loc' = [loc EXCEPT ![t] = LocInit]
        /\ events' = IF replies
                     THEN Append(events, Event("audio_response", t, loc[t].transcript, text, audio))
                     ELSE events
        /\ hist' = [hist EXCEPT !.done = [transcript |-> IF replies THEN loc[t].transcript
                                                         ELSE NoText,
                                          at |-> t2,
                                          outcome |-> outcome],
                            !.feeders = {}]

Init ==
    /\ BaseInit
    /\ tts = TtsInit(pipeline_cache_size)
    /\ \E parallel \in BOOLEAN : pm = PmInit(parallel, parallel)

\* enable_ultra_fast_mode(True), called while configuring the pipeline
EnableUltraFastMode ==
    /\ pm.total_chunks = 0
    /\ hist.ticks = 0
    /\ ~pm.ultra_fast_mode
    /\ pm' = [pm EXCEPT !.ultra_fast_mode = TRUE]
    /\ UNCHANGED <<now, vad, asr, tts, processing_lock, pc, loc, lingering, events, hist>>

Tick ==
    \E d \in TickSteps :
        /\ hist.ticks < MaxTicks
        /\ LockFree
        /\ now' = now + d
        /\ hist' = [hist EXCEPT !.ticks = @ + 1]
        /\ UNCHANGED <<vad, asr, tts, pm, processing_lock, pc, loc, lingering, events>>

\* the stream pauses for the length of the recency window
Pause ==
    /\ hist.pauses < MaxPauses
    /\ LockFree
    /\ hist.run # NoRun
    /\ pm.buffer = <<>>
    /\ now' = now + dup_window_ms
    /\ hist' = [hist EXCEPT !.pauses = @ + 1]
    /\ UNCHANGED <<vad, asr, tts, pm, processing_lock, pc, loc, lingering, events>>

\* a chunk arrives on a connection and the lock is free
Feed ==
    \E t \in Tasks, i \in Inputs, m \in PartialTexts :
        /\ pc[t] = "idle"
        /\ LockFree
        /\ pm.total_chunks < MaxSharedChunks
        /\ HandleChunk(t, i[1], i[2], m)

\* a chunk arrives on the first connection, the only one open
FeedOne ==
    \E i \in Inputs, m \in PartialTexts :
        /\ pc[1] = "idle"
        /\ LockFree
        /\ pm.total_chunks < MaxChunks
        /\ HandleChunk(1, i[1], i[2], m)

\* a chunk arrives while another call holds the lock
Arrive ==
    \E t \in Tasks :
        /\ pc[t] = "idle"
        /\ ~LockFree
        /\ pm.total_chunks < MaxSharedChunks
        /\ pc' = [pc EXCEPT ![t] = "waiting"]
        /\ UNCHANGED <<now, vad, asr, tts, pm, processing_lock, loc, lingering, events, hist>>

\* the waiting call gets the lock
Resume ==
    \E t \in Tasks, i \in Inputs, m \in PartialTexts :
        /\ pc[t] = "waiting"
        /\ LockFree
        /\ HandleChunk(t, i[1], i[2], m)

\* asr.finalize returns in the executor: _get_final_transcript
FinalizeDone ==
    \E t \in Tasks, f \in FinalTexts, p \in FinalTexts :
        LET r == AsrFinalize(asr, f, p)
        IN  /\ pc[t] = "finalize"
            /\ IF EmptyTranscript(r.ret)
               THEN /\ EndRun(t, "empty_transcript", r.asr, tts, now, FALSE, EmptyText, NoAudio)
                    /\ UNCHANGED lingering
               ELSE /\ asr' = r.asr
                    /\ pc' = [pc EXCEPT ![t] = "respond"]
                    /\ loc' = [loc EXCEPT ![t].transcript = r.ret, ![t].finalized_at = now]
                    /\ events' = Append(events, Event("transcript_final", t, r.ret, EmptyText, NoAudio))
                    /\ UNCHANGED <<now, vad, tts, pm, processing_lock, lingering, hist>>

\* rag.respond returns in the executor: _generate_response
RespondDone ==
    \E t \in Tasks, response \in ResponseTexts :
        /\ pc[t] = "respond"
        /\ IF response = EmptyText
           THEN /\ EndRun(t, "empty_response", asr, tts, now, FALSE, EmptyText, NoAudio)
                /\ UNCHANGED lingering
           ELSE /\ pc' = [pc EXCEPT ![t] = "tts"]
                /\ loc' = [loc EXCEPT ![t].response = response]
                /\ UNCHANGED <<now, vad, asr, tts, pm, processing_lock, lingering, events, hist>>

\* the await of a stage raises
StageRaises ==
    \E t \in Tasks :
        /\ pc[t] = "respond"
        /\ EndRun(t, "exception", asr, tts, now, FALSE, EmptyText, NoAudio)
        /\ UNCHANGED lingering

\* what the run returns once _generate_tts has returned tts_audio: the
\* sequential run returns the dict with whatever audio it got (lines
\* 598-611), the parallel run returns None when the audio is empty (lines
\* 667-689).  some is FALSE for None.
PipelineResult(parallel, transcript, text, audio) ==
    IF parallel /\ audio = NoAudio
    THEN [some |-> FALSE, audio |-> NoAudio, text |-> EmptyText, transcript |-> NoText]
    ELSE [some |-> TRUE, audio |-> audio, text |-> text, transcript |-> transcript]

\* the run of this session is _process_complete_utterance_parallel
RunsParallel(p) == p.ultra_fast_mode /\ p.enable_parallel_processing

\* tts.synthesize_with_cache returns in the executor: _generate_tts, the
\* return of the run, and the audio_response main.py sends for a result
TtsDone ==
    \E t \in Tasks, o \in BackendOutcomes :
        LET r == SynthesizeWithCache(tts, loc[t].response, o)
            replies == PipelineResult(RunsParallel(pm), loc[t].transcript,
                                      loc[t].response, r.ret).some
        IN  /\ pc[t] = "tts"
            /\ EndRun(t, IF replies THEN "response" ELSE "no_audio", asr, r.tts, now,
                      replies, loc[t].response, r.ret)
            /\ UNCHANGED lingering

\* asyncio.timeout(processing_timeout) fires while a stage is awaited; the
\* executor call goes on in its thread
Timeout ==
    \E t \in Tasks :
        /\ pc[t] \in Stages
        /\ Cardinality(lingering) < MaxLingering
        /\ lingering' = lingering \cup { [stage |-> pc[t], text |-> loc[t].response] }
        /\ EndRun(t, "timeout", asr, tts, Max(now, loc[t].deadline), FALSE, EmptyText, NoAudio)

\* an executor call left behind by a timeout completes: finalize stores its
\* text and sets finalized, synthesize_with_cache stores into the cache
LingerDone ==
    \E l \in lingering, f \in FinalTexts, o \in BackendOutcomes :
        /\ lingering' = lingering \ {l}
        /\ asr' = IF l.stage = "finalize"
                  THEN [asr EXCEPT !.last_final_transcript = f, !.finalized = TRUE]
                  ELSE asr
        /\ tts' = IF l.stage = "tts" THEN SynthesizeWithCache(tts, l.text, o).tts ELSE tts
        /\ UNCHANGED <<now, vad, pm, processing_lock, pc, loc, events, hist>>

\* the client of a connection goes away: WebSocketDisconnect in the handler
Disconnect ==
    \E t \in Tasks :
        /\ pc[t] = "idle"
        /\ hist.resets < MaxResets
        /\ pm.total_chunks > 0
        /\ pc' = [pc EXCEPT ![t] = "closing"]
        /\ hist' = [hist EXCEPT !.resets = @ + 1]
        /\ UNCHANGED <<now, vad, asr, tts, pm, processing_lock, loc, lingering, events>>

\* mutant: reset() forgets to clear the transcript it last answered
ResetFieldsKeepTranscript(p) ==
    [ResetUtteranceFields(p) EXCEPT !.state = "idle", !.last_processed_hash = NoHash]

\* the PipelineManager fields reset() assigns, lines 853-866
ResetFields(p) ==
    [ResetUtteranceFields(p) EXCEPT !.state = "idle",
                                    !.last_processed_hash = NoHash,
                                    !.processing_attempts = 0,
                                    !.is_processing = FALSE,
                                    !.last_processed_transcript = NoText,
                                    !.last_processed_time = 0]

\* the PipelineManager fields reset_stream_state assigns
ResetStreamFields(p) ==
    [p EXCEPT !.buffer = <<>>, !.pending_text = NoneText,
              !.last_processed_hash = NoHash,
              !.processing_attempts = 0,
              !.is_processing = FALSE,
              !.last_processed_transcript = NoText,
              !.last_processed_time = 0]

\* PipelineManager.reset, called by the handler on its way out
PipelineReset ==
    \E t \in Tasks :
        /\ pc[t] = "closing"
        /\ LockFree
        /\ pm' = ResetFields(pm)
        /\ vad' = ResetUtteranceVad(VadReset(vad))
        /\ asr' = ResetUtteranceAsr(AsrReset(asr))
        /\ pc' = [pc EXCEPT ![t] = "idle"]
        /\ hist' = [hist EXCEPT !.run.bytes = NoHash, !.dup_rejected = FALSE, !.feeders = {}]
        /\ UNCHANGED <<now, tts, processing_lock, loc, lingering, events>>

\* PipelineManager.reset_stream_state: synchronous, takes no lock
ResetStreamState ==
    /\ hist.resets < MaxResets
    /\ pm.total_chunks > 0
    /\ pm' = ResetStreamFields(pm)
    /\ hist' = [hist EXCEPT !.resets = @ + 1, !.run.bytes = NoHash, !.dup_rejected = FALSE,
                            !.feeders = {}]
    /\ UNCHANGED <<now, vad, asr, tts, processing_lock, pc, loc, lingering, events>>

Next ==
    \/ EnableUltraFastMode
    \/ Tick
    \/ Feed
    \/ Arrive
    \/ Resume
    \/ FinalizeDone
    \/ RespondDone
    \/ StageRaises
    \/ TtsDone
    \/ Timeout
    \/ LingerDone
    \/ Disconnect
    \/ PipelineReset
    \/ ResetStreamState

Spec == Init /\ [][Next]_vars

\* one connection whose stage calls all return, for longer streams
NextOne ==
    \/ EnableUltraFastMode
    \/ Tick
    \/ Pause
    \/ FeedOne
    \/ FinalizeDone
    \/ RespondDone
    \/ TtsDone

SpecOne == Init /\ [][NextOne]_vars

MaxSessionChunks == 6  \* audio chunks fed in the life of one connection

\* a chunk arrives on the first connection during its whole life
FeedSession ==
    \E i \in Inputs, m \in PartialTexts :
        /\ pc[1] = "idle"
        /\ LockFree
        /\ pm.total_chunks < MaxSessionChunks
        /\ HandleChunk(1, i[1], i[2], m)

\* one connection from its first chunk to its close: runs that return, time
\* out or raise, and the reset of the handler on its way out
NextSession ==
    \/ EnableUltraFastMode
    \/ Tick
    \/ FeedSession
    \/ FinalizeDone
    \/ RespondDone
    \/ StageRaises
    \/ TtsDone
    \/ Timeout
    \/ LingerDone
    \/ Disconnect
    \/ PipelineReset

SpecSession == Init /\ [][NextSession]_vars

----------------------------------------------------------------------------
(* SpecLegacy: the first chunks of a standard-mode session, too few to     *)
(* trigger a run, whose application calls the synchronous                  *)
(* process_utterance, the caller of _is_duplicate_transcript, between the  *)
(* chunks, and the two resets.                                             *)

MaxLegacyTicks == 2    \* clock ticks in one behaviour of SpecLegacy
MaxLegacyCalls == 2    \* calls of process_utterance in one behaviour of SpecLegacy
MaxLegacyChunks == 3   \* audio chunks fed in one behaviour of SpecLegacy
LegacyTickSteps == {1, min_time_between_responses - 1}
TextP == << "?" >>
TextQ == << "?", "?" >>
LegacyTexts == {NoText, TextA, TextB, TextC, TextP, TextQ}

InitLegacy == BaseInit /\ tts = TtsInit(pipeline_cache_size) /\ pm = PmInit(FALSE, FALSE)

LegacyTick ==
    \E d \in LegacyTickSteps :
        /\ hist.ticks < MaxLegacyTicks
        /\ LockFree
        /\ now' = now + d
        /\ hist' = [hist EXCEPT !.ticks = @ + 1]
        /\ UNCHANGED <<vad, asr, tts, pm, processing_lock, pc, loc, lingering, events>>

\* a chunk arrives on the connection of the session
LegacyFeed ==
    \E i \in Inputs, m \in PartialTexts :
        /\ pc[1] = "idle"
        /\ LockFree
        /\ pm.total_chunks < MaxLegacyChunks
        /\ HandleChunk(1, i[1], i[2], m)

\* process_utterance: f is the text of the final pass, raises tells whether
\* rag.respond or tts.synthesize raises.  The audio it returns is not kept.
ProcessUtterance ==
    \E f \in LegacyTexts, raises \in BOOLEAN :
        /\ hist.calls < MaxLegacyCalls
        /\ IF pm.is_processing \/ ~IsSessionActive(asr)
           THEN /\ hist' = [hist EXCEPT !.calls = @ + 1]
                /\ UNCHANGED <<pm, asr>>
           ELSE LET transcript == AsrFinalize(asr, f, NoText).ret
                    checked == ~EmptyTranscript(transcript)
                    duplicate == IsDuplicateTranscript(pm, transcript, now)
                IN  /\ pm' = IF checked /\ ~duplicate /\ ~raises
                              THEN [pm EXCEPT !.last_processed_transcript = transcript,
                                              !.last_processed_time = now,
                                              !.is_processing = FALSE]
                              ELSE [pm EXCEPT !.is_processing = FALSE]
                    /\ asr' = AsrReset(asr)
                    /\ hist' = [hist EXCEPT
                                   !.calls = @ + 1,
                                   !.dup_obs = IF checked
                                               THEN [seen |-> TRUE,
                                                     transcript |-> transcript,
                                                     prev |-> pm.last_processed_transcript,
                                                     elapsed |-> now - pm.last_processed_time,
                                                     result |-> duplicate]
                                               ELSE @]
        /\ UNCHANGED <<now, vad, tts, processing_lock, pc, loc, lingering, events>>

NextLegacy ==
    \/ LegacyTick
    \/ LegacyFeed
    \/ ProcessUtterance
    \/ Disconnect
    \/ PipelineReset
    \/ ResetStreamState

SpecLegacy == InitLegacy /\ [][NextLegacy]_vars

----------------------------------------------------------------------------
(* SpecBuffer: one connection whose client sends long chunks, up to more   *)
(* than max_buffer_duration of audio in one message.                       *)

MaxBufferChunks == 4   \* audio chunks fed in one behaviour of SpecBuffer
HalfChunk == [val |-> 300, len |-> 24576]    \* 0.768 s of clear signal
LongChunk == [val |-> 300, len |-> 49152]    \* 1.536 s of clear signal
BufferInputs == { << HalfChunk, 90 >>, << LongChunk, 90 >>, << SilenceFrame, 10 >> }

\* a chunk arrives on the connection
FeedBuffer ==
    \E i \in BufferInputs, m \in PartialTexts :
        /\ pc[1] = "idle"
        /\ LockFree
        /\ pm.total_chunks < MaxBufferChunks
        /\ HandleChunk(1, i[1], i[2], m)

NextBuffer ==
    \/ EnableUltraFastMode
    \/ Tick
    \/ FeedBuffer
    \/ FinalizeDone
    \/ RespondDone
    \/ TtsDone

SpecBuffer == Init /\ [][NextBuffer]_vars

----------------------------------------------------------------------------
(* SpecQuiet: one connection whose client sends chunks of 0.15 s back to   *)
(* back, most of them silent, long enough for the buffer to reach the      *)
(* 1.5 s of the predictive rule.                                           *)

MaxQuietChunks == 12   \* audio chunks fed in one behaviour of SpecQuiet

\* a chunk arrives on the connection
FeedQuiet ==
    \E i \in { << Burst, 90 >>, << [Burst EXCEPT !.val = 0], 10 >> } :
        /\ pc[1] = "idle"
        /\ LockFree
        /\ pm.total_chunks < MaxQuietChunks
        /\ HandleChunk(1, i[1], i[2], TextC)

SpecQuiet ==
    Init /\ [][EnableUltraFastMode \/ FeedQuiet \/ FinalizeDone \/ RespondDone \/ TtsDone]_vars

----------------------------------------------------------------------------
(* SpecLive: the two connections of Spec with few, long chunks, under the  *)
(* scheduling the event loop gives: an awaited stage call returns, raises  *)
(* or is cut off by asyncio.timeout when the deadline fires, and a         *)
(* coroutine waiting for _processing_lock (a chunk handler or reset())     *)
(* gets it once it stays free.                                             *)

MaxLiveChunks == 3     \* audio chunks taken without waiting in one behaviour of SpecLive

\* a chunk arrives on a connection and the lock is free
FeedLive ==
    \E t \in Tasks, i \in { << HalfChunk, 90 >>, << SilenceFrame, 10 >> } :
        /\ pc[t] = "idle"
        /\ LockFree
        /\ pm.total_chunks < MaxLiveChunks
        /\ HandleChunk(t, i[1], i[2], NoText)

SpecLive ==
    /\ Init
    /\ [][EnableUltraFastMode \/ Tick \/ FeedLive \/ Arrive \/ Resume \/ FinalizeDone
           \/ RespondDone \/ StageRaises \/ TtsDone \/ Timeout \/ LingerDone \/ Disconnect
           \/ PipelineReset]_vars
    /\ WF_vars(FinalizeDone \/ RespondDone \/ StageRaises \/ TtsDone \/ Timeout)
    /\ WF_vars(Resume)
    /\ WF_vars(PipelineReset)

----------------------------------------------------------------------------
(* SpecSteady: a standard-mode connection on which audio never stops      *)
(* arriving and the detector never sees a silence tail (the chunks arrive *)
(* back to back, so the clock stands still): some speech first, then      *)
(* silence for ever.  statistics.total_chunks, which the handler only     *)
(* increments, stops counting at MaxSteadyChunks.                         *)

MaxSteadyChunks == 12   \* value at which total_chunks stops counting in SpecSteady
MaxSteadySpeech == 2    \* speech chunks of a behaviour of SpecSteady

FeedSteady ==
    \E i \in { << Burst, 90 >>, << [Burst EXCEPT !.val = 0], 10 >> }, m \in PartialTexts :
        /\ pc[1] = "idle"
        /\ LockFree
        /\ SpeechDetected(i[1], i[2]) => BufLen(asr.audio_buffer) < MaxSteadySpeech * Burst.len
        /\ ChunkEffects(1, i[1],
                        ProcessAudioChunk([pm EXCEPT !.total_chunks = Min(@, MaxSteadyChunks - 1)],
                                          vad, asr, i[1], i[2], m, now))

SpecSteady == InitLegacy /\ [][FeedSteady]_vars /\ WF_vars(FeedSteady)

----------------------------------------------------------------------------
(* Claims about the orchestrator *)

\* C1: under any interleaving of concurrent feed_audio_with_transcription
\* calls on one PipelineManager, at most one execution of the
\* process-and-respond pipeline is active at any time.
C1_OneRunAtATime == Cardinality({t \in Tasks : pc[t] \in Stages}) <= 1

\* a run is active while another call waits for the lock
C1_Witness == \E t \in Tasks, u \in Tasks : pc[t] \in Stages /\ pc[u] = "waiting"

\* C2: is_processing is True when the first downstream stage is dispatched,
\* and it is False whenever no call of feed_audio_with_transcription is
\* inside the lock, that is after every return and every raise, whatever
\* the outcome of the run, in both modes.
C2_FlagDiscipline ==
    /\ [](processing_lock = NoTask => ~pm.is_processing)
    /\ [][\A t \in Tasks : (pc[t] \notin Stages /\ pc'[t] \in Stages) => pm'.is_processing]_vars

\* a standard-mode run was ended by its deadline and the call has returned
C2_Witness ==
    /\ lingering # {}
    /\ processing_lock = NoTask
    /\ ~pm.ultra_fast_mode
    /\ hist.run # NoRun

\* C3: a trigger on buffered audio byte-identical to the audio of the most
\* recent run, inside the recency window after that run started, starts no
\* second run.
C3_NoRepeatedRun ==
    [][\A t \in Tasks :
          (pc[t] \notin Stages /\ pc'[t] \in Stages)
          => ~(hist.run.bytes = Digest(pm'.buffer) /\ now - hist.run.at < dup_window_ms)]_vars

\* the first run was answered, and a second trigger on the same bytes was
\* rejected inside the window with nothing answered to it
C3_Witness ==
    /\ hist.dup_rejected
    /\ pm.ultra_fast_mode
    /\ hist.run.bytes = Digest(pm.buffer)
    /\ now - hist.run.at < dup_window_ms
    /\ hist.done.transcript # NoText
    /\ \A i \in DOMAIN events : events[i].type # "audio_response"

\* C4: an utterance whose final transcript has token-set similarity above
\* 0.9 to the transcript answered just before it, and that is finalized
\* within min_time_between_responses after that answer, gets no response.
C4_NoSimilarResponse ==
    [][\A t \in Tasks :
          (pc[t] = "tts" /\ pc'[t] = "idle" /\ events' # events)
          => ~(/\ hist.done.transcript # NoText
               /\ SimilarityAbove90(loc[t].transcript, hist.done.transcript)
               /\ loc[t].finalized_at - hist.done.at < min_time_between_responses)]_vars

\* C6: in both modes no run is triggered while the buffered audio is
\* shorter than 0.3 s.
C6_MinimumDuration == hist.run = NoRun \/ hist.run.buflen * 10 >= 3 * BytesPerSec

\* C8: when a triggered run ends, whatever its outcome, the audio buffer is
\* empty, the pending partial is cleared, the ASR session is un-finalized
\* with an empty buffer and the VAD edge is cleared; and one
\* utterance-ended edge starts at most one run, also when silence goes on.
C8_ResetAfterRun ==
    /\ [][\A t \in Tasks :
             (pc[t] \in Stages /\ pc'[t] \notin Stages)
             => /\ pm'.buffer = <<>>
                /\ pm'.pending_text = NoneText
                /\ asr'.audio_buffer = <<>>
                /\ ~asr'.finalized
                /\ ~vad'.end_of_utterance]_vars
    /\ [](hist.edge_runs <= 1)

\* one run was started on the edge, it has ended, and silence fed after it
\* started no second run
C8_Witness ==
    /\ hist.edge_runs = 1
    /\ hist.run # NoRun
    /\ processing_lock = NoTask
    /\ pm.buffer = << SilenceFrame >>

\* C9: when the synthesis backend fails during a run, no audio_response is
\* sent for the utterance: no audio_response carries the audio produced
\* for a failed backend.
C9_NoResponseOnSynthesisFailure ==
    \A i \in DOMAIN events :
        events[i].type = "audio_response" => events[i].audio.kind # "placeholder"

\* C11: in both modes, the start of a pipeline run puts the session state
\* in Processing, and a run that ends without an exception (response, empty
\* outcome or timeout) leaves the state Idle when the call returns.
C11_StateCycle ==
    [][\A t \in Tasks :
          /\ (pc[t] \notin Stages /\ pc'[t] \in Stages) => pm'.state = "processing"
          /\ (pc[t] \in Stages /\ pc'[t] = "idle") => pm'.state = "idle"]_vars

\* the outcomes of a run that produce nothing for the utterance
NoOutputOutcomes == {"empty_transcript", "empty_response", "timeout"}

\* C12: a run that ends with an empty final transcript, an empty response
\* or the deadline returns to the handler without raising and without a
\* response, leaves the error counter and the Error state untouched, and
\* resets the utterance state (buffer, pending text, in-flight flag,
\* transcriber session, detector edge), so that the lock is free for the
\* next chunk.
C12_NoOutputIsNoError ==
    [][\A t \in Tasks :
          (pc[t] \in Stages /\ pc'[t] \notin Stages /\ hist'.done.outcome \in NoOutputOutcomes)
          => /\ pc'[t] = "idle"
             /\ events' = events
             /\ pm'.errors = pm.errors
             /\ pm'.state # "error"
             /\ pm'.buffer = <<>> /\ pm'.pending_text = NoneText /\ ~pm'.is_processing
             /\ asr'.audio_buffer = <<>> /\ ~asr'.finalized
             /\ ~vad'.end_of_utterance
             /\ processing_lock' = NoTask]_vars

\* a run of the session ended by the deadline, nothing was counted as an
\* error, and a later utterance of the same session is being processed
C12_Witness ==
    /\ hist.done.outcome = "timeout"
    /\ pc[1] \in Stages
    /\ pm.errors = 0
    /\ hist.resets = 0

\* C13: whatever the synthesizer returns for the response of a run (audio,
\* placeholder audio or no audio), the sequential and the parallel
\* pipeline return the same result from it.
C13_SameLogicalResult ==
    \A t \in Tasks, o \in BackendOutcomes :
        pc[t] = "tts"
        => LET audio == SynthesizeWithCache(tts, loc[t].response, o).ret
           IN  PipelineResult(TRUE, loc[t].transcript, loc[t].response, audio)
               = PipelineResult(FALSE, loc[t].transcript, loc[t].response, audio)

\* C14: the messages sent for the utterance in the buffer are in trigger
\* order: partial transcripts, then the final transcript, then the
\* audio_response, which follows the final transcript of the same
\* utterance; and while a run is in flight nothing is sent except its own
\* final transcript and its own response, so that no event of a later
\* utterance comes before them.
C14_EventOrder ==
    /\ [](\A i \in DOMAIN events, j \in DOMAIN events :
            i < j => /\ events[i].type # "audio_response"
                     /\ events[i].type = "transcript_final"
                        => /\ events[j].type = "audio_response"
                           /\ events[j].transcript = events[i].transcript
                           /\ events[j].to = events[i].to)
    /\ [](\A j \in DOMAIN events :
            events[j].type = "audio_response"
            => j > 1 /\ events[j - 1].type = "transcript_final")
    /\ [][\A t \in Tasks :
            (pc[t] \in Stages /\ events' # events)
            => /\ Len(events') = Len(events) + 1
               /\ SubSeq(events', 1, Len(events)) = events
               /\ events'[Len(events')].to = t
               /\ events'[Len(events')].type \in {"transcript_final", "audio_response"}]_vars

\* a partial transcript, the final transcript and the response of one
\* utterance were sent, in this order
C14_Witness ==
    /\ Len(events) = 3
    /\ events[1].type = "transcript_partial"
    /\ events[2].type = "transcript_final"
    /\ events[3].type = "audio_response"
    /\ events[3].audio # NoAudio

\* C15: in either mode, an exception raised inside a pipeline stage puts
\* the session in Error, is counted, and is raised out of
\* feed_audio_with_transcription to the handler, which then leaves its
\* receive loop.
C15_ExceptionSurfaces ==
    [][\A t \in Tasks :
          (pc[t] \in Stages /\ pc'[t] \notin Stages /\ hist'.done.outcome = "exception")
          => /\ pm'.state = "error"
             /\ pm'.errors = pm.errors + 1
             /\ pc'[t] = "closing"]_vars

\* C16: a transcriber session is active iff its buffer is non-empty and it
\* is not finalized; finalize() leaves it finalized and inactive; a
\* feed_audio on a finalized session changes nothing and returns None;
\* reset_session() empties the buffer and clears finalized; a feed_audio
\* right after it is buffered; a finalize() right after it returns "".
C16_SessionLifecycle ==
    /\ [](IsSessionActive(asr) <=> (asr.audio_buffer # <<>> /\ ~asr.finalized))
    /\ [][hist'.calls = hist.calls + 1
          => /\ hist'.last_call.op = "finalize"
                => asr'.finalized /\ ~IsSessionActive(asr')
             /\ (hist'.last_call.op = "feed" /\ asr.finalized)
                => asr' = asr /\ hist'.last_call.ret = NoneText
             /\ hist'.last_call.op = "reset"
                => asr'.audio_buffer = <<>> /\ ~asr'.finalized
             /\ (hist.last_call.op = "reset" /\ hist'.last_call.op = "feed")
                => IsSessionActive(asr')
             /\ (hist.last_call.op = "reset" /\ hist'.last_call.op = "finalize")
                => hist'.last_call.ret = NoText]_vars

\* audio was fed to a session finalized with a transcript, and dropped
C16_Witness ==
    /\ hist.last_call.op = "feed"
    /\ asr.finalized
    /\ asr.last_final_transcript # NoText
    /\ hist.fin_rets # <<>>

C18_ResetPostconditions ==
    /\ [][\A t \in Tasks :
            (pc[t] = "closing" /\ pc'[t] = "idle")
            => /\ ~pm'.is_processing
               /\ pm'.last_processed_transcript = NoText
               /\ pm'.last_processed_time = 0
               /\ pm'.processing_attempts = 0
               /\ pm'.buffer = <<>>
               /\ pm'.state = "idle"]_vars
    /\ [][(hist'.resets = hist.resets + 1 /\ pc' = pc)
          => /\ pm'.processing_attempts = 0
             /\ pm'.buffer = <<>>
             /\ ~pm'.is_processing]_vars

\* a reset emptied a session that had audio buffered and had answered a
\* transcript
C18_Witness ==
    /\ hist.resets = 1
    /\ hist.dup_obs.seen
    /\ hist.dup_obs.prev # NoText
    /\ pm.last_processed_transcript = NoText
    /\ pm.last_processed_time = 0
    /\ pm.total_chunks > 0
    /\ pm.buffer = <<>>
    /\ \A t \in Tasks : pc[t] = "idle"

\* C19: once reset() has returned, no trigger is rejected as a duplicate of
\* the utterance processed before the reset: the content fingerprint and
\* its timestamp do not survive it, in either mode.
C19_ResetForgetsDuplicates ==
    ~(hist.run # NoRun /\ hist.run.bytes = NoHash /\ hist.dup_rejected)

\* C20: after every feed_audio_with_transcription call, whatever the size
\* of the chunks, the audio buffer holds at most _max_buffer_size bytes
\* (max_buffer_duration seconds of audio).
C20_BufferBounded == BufLen(pm.buffer) <= max_buffer_size

\* C21: each connection has its own session: the audio buffered for an
\* utterance comes from one connection only, a run started by a chunk of
\* one connection works on the audio of that connection only, and the
\* reset a handler makes when its client disconnects leaves the audio
\* buffered for another connection where it is.
C21_OwnSession ==
    /\ [](Cardinality(hist.feeders) <= 1)
    /\ [][\A t \in Tasks :
            /\ (pc[t] \notin Stages /\ pc'[t] \in Stages) => hist'.feeders \subseteq {t}
            /\ (pc[t] = "closing" /\ pc'[t] = "idle" /\ hist.feeders \ {t} # {})
               => pm'.buffer = pm.buffer]_vars

\* C22: while the finalize() of a triggered run is pending, the audio the
\* transcriber has accumulated is byte for byte the audio the
\* orchestrator's buffer held when the run was triggered.
C22_FinalizeOnSnapshot ==
    \A t \in Tasks : pc[t] = "finalize" => Digest(asr.audio_buffer) = hist.run.bytes

\* C23: a stage call left running by a deadline expiry changes nothing of
\* the session when it completes (transcriber, orchestrator fields and
\* buffer stay as they are), and no later run takes its transcript from a
\* finalize() that found the session already finalized, so that the text
\* of the abandoned call is never sent for a later utterance.
C23_LateResultsDiscarded ==
    /\ [][Cardinality(lingering') < Cardinality(lingering) => asr' = asr /\ pm' = pm]_vars
    /\ [][\A t \in Tasks : (pc[t] = "finalize" /\ pc'[t] = "respond") => ~asr.finalized]_vars

\* C24: at most one call of a stage (finalize, respond, synthesize) runs at
\* any time: while a call left behind by a deadline expiry is still
\* running, no run has a call of the same stage in the executor.
C24_StageCallsDoNotOverlap ==
    \A t \in Tasks, l \in lingering : pc[t] # l.stage

\* C25: an is_speech call raises the utterance-ended edge only when the
\* silence observed without interruption since the last speech has lasted
\* at least max_tail_ms: speech in between restarts the silence timer.
C25_TailIsConsecutiveSilence ==
    [][(hist'.calls = hist.calls + 1 /\ ~vad.end_of_utterance /\ vad'.end_of_utterance)
       => /\ hist'.quiet_since # NoTime
          /\ now - hist'.quiet_since >= max_tail_ms]_vars

\* C26: end_of_utterance becomes true only in an is_speech call that
\* observes silence while the detector is speaking with the edge not
\* consumed and at least max_tail_ms after silence_start; no other
\* operation of the detector sets it.
C26_EdgeOnlyFromTailRule ==
    [][(~vad.end_of_utterance /\ vad'.end_of_utterance)
       => /\ hist'.calls = hist.calls + 1
          /\ vad.was_speaking /\ ~vad.utterance_processed
          /\ ~vad'.last_speech_result
          /\ vad'.silence_start # NoTime
          /\ now - vad'.silence_start >= max_tail_ms]_vars

\* C27 as stated: once the edge has risen, no further edge rises until the
\* orchestrator has acknowledged it with mark_utterance_processed or reset.
C27_NoEdgeBeforeAcknowledgement ==
    [][(~vad.end_of_utterance /\ vad'.end_of_utterance) => hist.unacked_edges = 0]_vars

\* C27: the edge rises only while the detector is speaking with the edge
\* not acknowledged, and rising it ends the speaking state; the detector
\* is never speaking while the edge is set, and it starts speaking again
\* only on a speech observation, which clears the edge and the
\* acknowledgement.  So the edge rises at most once per utterance, an
\* acknowledged edge does not rise again in its silence window, and a
\* further edge needs the speech onset of a new utterance, whether the
\* orchestrator acknowledged the previous edge or not.
C27_EdgeOncePerUtterance ==
    /\ [](vad.end_of_utterance => ~vad.was_speaking)
    /\ [][(~vad.end_of_utterance /\ vad'.end_of_utterance)
          => vad.was_speaking /\ ~vad.utterance_processed /\ ~vad'.was_speaking]_vars
    /\ [][(~vad.was_speaking /\ vad'.was_speaking)
          => /\ vad'.last_speech_result
             /\ ~vad'.end_of_utterance /\ ~vad'.utterance_processed]_vars

\* two utterances ended with an edge and none of the edges was acknowledged
C27_Witness ==
    /\ hist.unacked_edges = 2
    /\ vad.end_of_utterance
    /\ ~vad.utterance_processed

\* C28: the bytes of a trailing partial sub-frame are kept and evaluated
\* with the start of the next chunk, so the bytes fed to is_speech that no
\* evaluated sub-frame contained never amount to a whole sub-frame of
\* 1024 bytes.
C28_PartialSubFrameKept == hist.skipped_bytes < target_chunk_size

\* C29: is_speech never raises when model calls fail; a sub-frame whose
\* model call fails counts as a sub-frame of silence (the call returns and
\* leaves the detector as if the model had answered 0.0 for it); and a
\* chunk whose model calls all fail is reported as not speech and updates
\* the detector as a silence observation of probability 0.0.
C29_FailedCallIsSilence ==
    [][hist'.calls = hist.calls + 1
       => LET o == hist'.frame_obs
              silenced == [i \in DOMAIN o.outs |->
                              IF o.outs[i].ok THEN o.outs[i] ELSE [ok |-> TRUE, prob |-> 0]]
              as_silence == IsSpeechFrames(vad, o.len, silenced, now)
          IN  /\ ~o.raised
              /\ o.ret = as_silence.ret
              /\ vad' = as_silence.vad
              /\ (o.outs # <<>> /\ \A i \in DOMAIN o.outs : ~o.outs[i].ok)
                 => /\ ~o.ret
                    /\ vad' = [UpdateSpeechState(vad, FALSE, 0, now)
                                  EXCEPT !.last_speech_result = FALSE]]_vars

\* a chunk of two sub-frames whose model calls both failed was taken as
\* the silence that ended the utterance
C29_Witness ==
    /\ Len(hist.frame_obs.outs) = 2
    /\ \A i \in DOMAIN hist.frame_obs.outs : ~hist.frame_obs.outs[i].ok
    /\ vad.end_of_utterance
    /\ vad.silence_start # NoTime
    /\ now - vad.silence_start >= max_tail_ms
    /\ Len(vad.recent_probabilities) = hist.calls

\* C30: should_trigger_early_processing returns true only when the
\* probability history holds at least 8 samples and the mean of its 5 most
\* recent samples is below the predictive threshold 0.5 and below 0.3; it
\* returns false for every history shorter than 8.
C30_EarlyTrigger ==
    LET q == vad.recent_probabilities
        n == Len(q)
    IN  /\ hist.early
           => /\ n >= 8
              /\ q[n] + q[n - 1] + q[n - 2] + q[n - 3] + q[n - 4] < 5 * 50
              /\ q[n] + q[n - 1] + q[n - 2] + q[n - 3] + q[n - 4] < 5 * 30
        /\ n < 8 => ~hist.early

\* the history is full and has dropped its oldest sample, it began with
\* speech, and its last five samples average 0.24: an early trigger
C30_Witness ==
    /\ hist.early
    /\ hist.calls = MaxPredictCalls
    /\ Len(vad.recent_probabilities) = recent_maxlen
    /\ vad.recent_probabilities[1] = 90
    /\ SumSeq(SubSeq(vad.recent_probabilities, 6, 10)) = 120

\* C31: when a chunk is appended, the buffer goes on holding the most
\* recent K = 5 seconds of the audio it held before (all of it when it held
\* less), followed by the chunk; the previous audio is dropped outright only
\* when those K seconds by themselves are more than the cap.
C31_TrimKeepsRecent ==
    [][(pm'.total_chunks = pm.total_chunks + 1 /\ pm'.buffer # pm.buffer)
       => LET kept == Suffix(pm.buffer, keep_bytes)
          IN  BufLen(kept) <= max_buffer_size
              => /\ BufLen(pm'.buffer) > BufLen(kept)
                 /\ Prefix(pm'.buffer, BufLen(kept)) = kept]_vars

\* C32: on the standard path, when audio keeps arriving and the detector
\* never reports an utterance end, the buffer eventually holds 5.0 s of
\* audio and a pipeline run is triggered.
C32_CeilingReached == <>(AtDurationCeiling(pm.buffer) /\ pm.is_processing)

\* C33: in either mode, a trigger is rejected as a duplicate of the most
\* recently processed utterance only inside the recency window that
\* follows the start of that run; after the window the same bytes are
\* processed.
C33_RejectedOnlyInWindow ==
    [][(~hist.dup_rejected /\ hist'.dup_rejected)
       => /\ hist.run # NoRun
          /\ now - hist.run.at < dup_window_ms]_vars

\* C34: a request that hits the Response Cache gets audio that was
\* synthesized for a text equal to the requested one once both are trimmed
\* and lower-cased: texts that differ after that never share an entry.
C34_HitMatchesText ==
    \A text \in CacheTexts :
        (~IsBlank(text) /\ CacheKey(text) \in CacheKeys(tts))
        => LET audio == CacheGet(tts, CacheKey(text))
           IN  \/ audio.kind = "empty"
               \/ /\ Lower(Strip(audio.text.s)) = Lower(Strip(text.s))
                  /\ Lower(Strip(audio.text.more)) = Lower(Strip(text.more))

\* C35: under concurrent calls of synthesize_with_cache the bookkeeping of
\* the cache stays consistent: once every call has returned, cache_hits
\* plus cache_misses is the number of calls that returned for a non-blank
\* text, and the cache never holds more than max_cache_size entries.
C35_CacheConsistent ==
    /\ (\A t \in Tasks : pc[t] = "idle") => tts.cache_hits + tts.cache_misses = hist.calls
    /\ Len(tts.response_cache) <= tts.max_cache_size

\* C36 as stated: a partial transcript is emitted only on a chunk that
\* triggers no run, is classified as speech and yields a non-empty text
\* different from the last emitted partial; and a near-silent chunk shorter
\* than the minimum duration is buffered without a partial and without
\* triggering a run, whatever came before it.
C36_QuietChunkNeverTriggers ==
    [][pm'.total_chunks = pm.total_chunks + 1
       => LET new_partial == IF pm.buffer = <<>> THEN events' # <<>> ELSE events' # events
              started == pm'.is_processing /\ ~pm.is_processing
              quiet == /\ ~vad'.last_speech_result
                       /\ pm'.buffer = Extend(ManageBufferSize(pm.buffer, SilenceFrame.len),
                                              SilenceFrame)
          IN  /\ new_partial
                 => /\ ~started
                    /\ vad'.last_speech_result
                    /\ events'[Len(events')].type = "transcript_partial"
                    /\ events'[Len(events')].transcript \notin {NoText, NoneText, pm.pending_text}
              /\ quiet => ~new_partial /\ ~started]_vars

\* C36: a partial transcript is emitted only on a chunk that triggers no
\* run, is classified as speech and yields a non-empty text different from
\* the pending partial of the utterance; a near-silent chunk shorter than
\* the minimum duration is buffered without a partial, and it triggers no
\* run as long as the detector is not in an utterance, no utterance-ended
\* edge is pending and less than 1.5 s of audio is buffered.
C36_PartialOnlyOnSpeech ==
    [][pm'.total_chunks = pm.total_chunks + 1
       => LET new_partial == IF pm.buffer = <<>> THEN events' # <<>> ELSE events' # events
              started == pm'.is_processing /\ ~pm.is_processing
              quiet == /\ ~vad'.last_speech_result
                       /\ pm'.buffer = Extend(ManageBufferSize(pm.buffer, SilenceFrame.len),
                                              SilenceFrame)
          IN  /\ new_partial
                 => /\ ~started
                    /\ vad'.last_speech_result
                    /\ events'[Len(events')].type = "transcript_partial"
                    /\ events'[Len(events')].transcript \notin {NoText, NoneText, pm.pending_text}
                    /\ pm'.pending_text = events'[Len(events')].transcript
              /\ quiet
                 => /\ ~new_partial
                    /\ BufLen(pm'.buffer) >= SilenceFrame.len
                    /\ started => \/ vad.was_speaking
                                  \/ vad.end_of_utterance
                                  \/ AtPredictiveFloor(pm'.buffer)]_vars

\* a partial was emitted for the speech of the utterance in the buffer, and
\* the quiet chunk that followed it was buffered without a partial and
\* without a run
C36_Witness ==
    /\ Len(events) = 1
    /\ events[1].type = "transcript_partial"
    /\ events[1].transcript = pm.pending_text
    /\ ~vad.last_speech_result
    /\ pm.buffer # <<>>
    /\ pm.buffer[Len(pm.buffer)].val = SilenceFrame.val
    /\ ~pm.is_processing
    /\ hist.run = NoRun

\* C37: in one transcriber session feed_audio returns a partial at most
\* once: once a partial was returned, the stored fingerprint is the one of
\* the buffer (its first 1000 samples, which appending never changes), and
\* every later feed_audio of the session returns nothing and leaves the
\* stored partial as it is.
C37_OnePartialPerSession ==
    /\ [](hist.partial_after
           => /\ asr.last_partial_hash = AudioHash(asr.audio_buffer)
              /\ BufLen(asr.audio_buffer) >= hash_sample_size * bytes_per_sample)
    /\ [][(hist.partial_after /\ hist'.calls = hist.calls + 1 /\ hist'.last_call.op = "feed")
           => /\ hist'.last_call.ret = NoneText
              /\ asr'.last_partial_hash = asr.last_partial_hash
              /\ asr'.last_partial_transcript = asr.last_partial_transcript]_vars

\* after the partial of the session, more audio was fed once the update
\* interval had passed, and feed_audio returned nothing
C37_Witness ==
    /\ hist.partial_after
    /\ hist.last_call = [op |-> "feed", ret |-> NoneText]
    /\ ~asr.finalized
    /\ now - asr.last_partial_time >= partial_update_interval
    /\ BufLen(asr.audio_buffer) >= 2 * LoudTenth.len
    /\ ~IsSilentRms(asr.audio_buffer)

\* C38: in ultra-fast mode a run is triggered only when a chunk was
\* classified as speech since the last utterance reset (the detector is in
\* an utterance or holds its utterance-ended edge), so that silence alone
\* never triggers; and right after the reset that ends a run the
\* early-trigger decision is the one of a fresh history (no trigger),
\* whatever probabilities the earlier utterance left.
C38_SpeechBeforeTrigger ==
    /\ [][(pm.ultra_fast_mode /\ ~pm.is_processing /\ pm'.is_processing)
           => (vad'.was_speaking \/ vad'.end_of_utterance)]_vars
    /\ []((pm.ultra_fast_mode /\ hist.done # NoDone /\ pm.buffer = <<>> /\ ~pm.is_processing)
           => ~ShouldTriggerEarlyProcessing(vad.recent_probabilities))

\* C39: in ultra-fast mode, once a trigger was rejected as a duplicate of
\* the utterance processed last, no run that starts inside the recency
\* window of that utterance covers the rejected audio, i.e. begins with
\* the bytes that were rejected.
C39_RejectedAudioNotProcessed ==
    [][(pm.ultra_fast_mode /\ hist.dup_rejected /\ ~pm.is_processing /\ pm'.is_processing)
       => ~(/\ now - hist.run.at < dup_window_ms
            /\ BufLen(pm'.buffer) >= hist.run.buflen
            /\ Digest(Prefix(pm'.buffer, hist.run.buflen)) = hist.run.bytes)]_vars

\* C40: every triggered run terminates: a call of
\* feed_audio_with_transcription that is inside a run eventually leaves it
\* (it returns or raises, at the latest when the deadline fires),
\* is_processing becomes False again, and a coroutine waiting for the
\* processing lock, a chunk handler or reset(), eventually gets past it.
C40_RunsTerminate ==
    /\ \A t \in Tasks : (pc[t] \in Stages) ~> (pc[t] \notin Stages)
    /\ pm.is_processing ~> ~pm.is_processing
    /\ \A t \in Tasks : (pc[t] = "waiting") ~> (pc[t] # "waiting")
    /\ \A t \in Tasks : (pc[t] = "closing") ~> (pc[t] = "idle")

\* a run was cut off by the deadline while the handler of the other
\* connection waited to call reset(): the flag is down and the lock is free
C40_Witness ==
    /\ hist.done.outcome = "timeout"
    /\ ~pm.is_processing
    /\ LockFree
    /\ \E t \in Tasks : pc[t] = "closing"
    /\ lingering # {}

============================================================================
